---- MODULE Spec2Model ----
(***************************************************************************)
(* A model of generate-spendenbescheinigung.py: one run of main() over a   *)
(* semicolon-separated donation ledger.  Text is modelled character by     *)
(* character: a string is a sequence of one-character strings, so that     *)
(* str.replace, str.split, str.strip, str.lower, int(), Decimal() and      *)
(* datetime.strptime are computed the way the interpreter computes them.   *)
(***************************************************************************)
EXTENDS Integers, Sequences, FiniteSets, TLC

VARIABLES
    pc,                 \* where main() stands
    args,               \* the parsed command line and what exists on disk
    nread,              \* ledger lines read so far
    rows,               \* the records parsed
    groups,             \* the defaultdict, as a list of [key, items] in insertion order
    ausstellungsdatum,  \* the issue date of the run, formatted
    gi,                 \* the index of the next group of the loop
    files,              \* the output directory
    log,                \* history: the writes, compiler calls and cleanups, in order
    stdout,             \* what was printed
    status,             \* the exit status, "running" before the exit
    probe               \* the argument and results of the words conversions tried alone

vars == <<pc, args, nread, rows, groups, ausstellungsdatum, gi,
          files, log, stdout, status, probe>>

(***************************************************************************)
(* Characters and the str methods the program uses.                        *)
(***************************************************************************)
UpperLetters == <<"A","B","C","D","E","F","G","H","I","J","K","L","M",
                  "N","O","P","Q","R","S","T","U","V","W","X","Y","Z">>

LowerLetters == <<"a","b","c","d","e","f","g","h","i","j","k","l","m",
                  "n","o","p","q","r","s","t","u","v","w","x","y","z">>

Digits == <<"0","1","2","3","4","5","6","7","8","9">>

IsDigit(c) == \E i \in DOMAIN Digits : Digits[i] = c

DigitVal(c) == (CHOOSE i \in DOMAIN Digits : Digits[i] = c) - 1

IsUpper(c) == \E i \in DOMAIN UpperLetters : UpperLetters[i] = c

IsLower(c) == \E i \in DOMAIN LowerLetters : LowerLetters[i] = c

\* str.isalnum for one character
IsAlnum(c) == IsDigit(c) \/ IsUpper(c) \/ IsLower(c)

\* str.isspace for one character
IsSpace(c) == c = " "

LowerChar(c) ==
    IF IsUpper(c)
    THEN LowerLetters[CHOOSE i \in DOMAIN UpperLetters : UpperLetters[i] = c]
    ELSE c

UpperChar(c) ==
    IF IsLower(c)
    THEN UpperLetters[CHOOSE i \in DOMAIN LowerLetters : LowerLetters[i] = c]
    ELSE c

RECURSIVE Lower(_)
\* str.lower
Lower(s) == IF s = <<>> THEN <<>> ELSE <<LowerChar(Head(s))>> \o Lower(Tail(s))

\* str.capitalize: first character upper case, the rest lower case
Capitalize(s) == IF s = <<>> THEN <<>> ELSE <<UpperChar(Head(s))>> \o Lower(Tail(s))

RECURSIVE LStrip(_)
LStrip(s) == IF s # <<>> /\ IsSpace(Head(s)) THEN LStrip(Tail(s)) ELSE s

RECURSIVE RStrip(_)
RStrip(s) ==
    IF s # <<>> /\ IsSpace(s[Len(s)]) THEN RStrip(SubSeq(s, 1, Len(s) - 1)) ELSE s

\* str.strip()
Strip(s) == RStrip(LStrip(s))

RECURSIVE LStripChar(_, _)
LStripChar(s, c) == IF s # <<>> /\ Head(s) = c THEN LStripChar(Tail(s), c) ELSE s

RECURSIVE RStripChar(_, _)
RStripChar(s, c) ==
    IF s # <<>> /\ s[Len(s)] = c THEN RStripChar(SubSeq(s, 1, Len(s) - 1), c) ELSE s

\* str.strip(c) for a single character c
StripChar(s, c) == RStripChar(LStripChar(s, c), c)

\* old occurs in s at position i
OccursAt(s, old, i) == \A k \in 1..Len(old) : s[i + k - 1] = old[k]

RECURSIVE Replace(_, _, _)
\* str.replace(old, new), old not empty: the leftmost occurrence is replaced,
\* then the text behind it in the same way (left to right, non-overlapping)
Replace(s, old, new) ==
    LET starts == {i \in 1..(Len(s) - Len(old) + 1) : OccursAt(s, old, i)}
    IN  IF starts = {} THEN s
        ELSE LET i == CHOOSE k \in starts : \A j \in starts : k <= j
             IN  SubSeq(s, 1, i - 1) \o new
                   \o Replace(SubSeq(s, i + Len(old), Len(s)), old, new)

Contains(s, c) == \E i \in 1..Len(s) : s[i] = c

RECURSIVE Split(_, _)
\* str.split(sep) for a single character sep
Split(s, sep) ==
    IF ~Contains(s, sep) THEN <<s>>
    ELSE LET i == CHOOSE k \in 1..Len(s) :
                      s[k] = sep /\ \A j \in 1..(k - 1) : s[j] # sep
         IN  <<SubSeq(s, 1, i - 1)>> \o Split(SubSeq(s, i + 1, Len(s)), sep)

RECURSIVE Join(_, _)
\* sep.join(parts)
Join(parts, sep) ==
    IF parts = <<>> THEN <<>>
    ELSE IF Len(parts) = 1 THEN parts[1]
    ELSE parts[1] \o sep \o Join(Tail(parts), sep)

AllDigits(s) == \A i \in 1..Len(s) : IsDigit(s[i])

RECURSIVE DigitsValue(_)
\* the number a string of digits denotes (0 for the empty string)
DigitsValue(s) ==
    IF s = <<>> THEN 0
    ELSE 10 * DigitsValue(SubSeq(s, 1, Len(s) - 1)) + DigitVal(s[Len(s)])

RECURSIVE NatStr(_)
\* str(n) for n >= 0
NatStr(n) == IF n < 10 THEN <<Digits[n + 1]>> ELSE NatStr(n \div 10) \o <<Digits[(n % 10) + 1]>>

\* str(n)
IntStr(n) == IF n < 0 THEN <<"-">> \o NatStr(-n) ELSE NatStr(n)

\* f"{n:02d}": at least two characters, the sign counted, padded with zeros
Fmt02d(n) ==
    IF n < 0 THEN <<"-">> \o NatStr(-n)
    ELSE IF n < 10 THEN <<"0">> \o NatStr(n) ELSE NatStr(n)

RECURSIVE Pow10(_)
Pow10(k) == IF k = 0 THEN 1 ELSE 10 * Pow10(k - 1)

\* int(s) of a stripped string: an optional sign and at least one digit
ParseInt(s) ==
    LET signed == s # <<>> /\ Head(s) \in {"-", "+"}
        body   == IF signed THEN Tail(s) ELSE s
    IN  IF body # <<>> /\ AllDigits(body)
        THEN [ok |-> TRUE,
              v  |-> IF signed /\ Head(s) = "-" THEN -DigitsValue(body) ELSE DigitsValue(body)]
        ELSE [ok |-> FALSE, v |-> 0]

(***************************************************************************)
(* decimal.Decimal, for the operand strings this model feeds it: a sign,   *)
(* digits, at most one point, or NaN.  A finite value is sign, coefficient *)
(* c and e fractional digits (c * 10^-e), so that sums are exact and the   *)
(* sign of a zero is kept, as Decimal keeps it.                            *)
(***************************************************************************)
DecFin(neg, c, e) == [k |-> "fin", neg |-> neg, c |-> c, e |-> e]

DecNaN(neg) == [k |-> "nan", neg |-> neg, c |-> 0, e |-> 0]

\* the constructor raised InvalidOperation
DecInvalid == [k |-> "invalid", neg |-> FALSE, c |-> 0, e |-> 0]

\* Decimal(s)
Decimal(s) ==
    LET signed == s # <<>> /\ Head(s) \in {"-", "+"}
        neg    == signed /\ Head(s) = "-"
        body   == IF signed THEN Tail(s) ELSE s
        parts  == Split(body, ".")
    IN  IF Lower(body) = <<"n", "a", "n">> THEN DecNaN(neg)
        ELSE IF /\ Len(parts) <= 2
                /\ \A i \in 1..Len(parts) : AllDigits(parts[i])
                /\ \E i \in 1..Len(parts) : parts[i] # <<>>
             THEN IF Len(parts) = 1
                  THEN DecFin(neg, DigitsValue(parts[1]), 0)
                  ELSE DecFin(neg, DigitsValue(parts[1] \o parts[2]), Len(parts[2]))
             ELSE DecInvalid

Max(a, b) == IF a >= b THEN a ELSE b

\* the integer d.c * 10^(e - d.e) with d's sign, e >= d.e
DecScaled(d, e) == (IF d.neg THEN -1 ELSE 1) * d.c * Pow10(e - d.e)

\* a + b under the default context (quiet NaN propagates; a zero sum is
\* negative only when both operands are)
DecAdd(a, b) ==
    IF a.k = "nan" THEN a
    ELSE IF b.k = "nan" THEN b
    ELSE LET e == Max(a.e, b.e)
             s == DecScaled(a, e) + DecScaled(b, e)
         IN  DecFin(s < 0 \/ (s = 0 /\ a.neg /\ b.neg), IF s < 0 THEN -s ELSE s, e)

\* c / 10^drop rounded half to even (the default context's rounding)
RoundHalfEven(c, drop) ==
    IF drop = 0 THEN c
    ELSE LET p == Pow10(drop)
             q == c \div p
             r == c % p
         IN  IF 2 * r > p \/ (2 * r = p /\ q % 2 = 1) THEN q + 1 ELSE q

\* |d| in hundredths, rounded half to even
Hundredths(d) ==
    IF d.e <= 2 THEN d.c * Pow10(2 - d.e) ELSE RoundHalfEven(d.c, d.e - 2)

\* f"{d:.2f}"
FormatF2(d) ==
    (IF d.neg THEN <<"-">> ELSE <<>>) \o
    (IF d.k = "nan" THEN <<"N", "a", "N">>
     ELSE LET h == Hundredths(d)
          IN  NatStr(h \div 100) \o <<".">> \o <<Digits[((h % 100) \div 10) + 1]>>
                \o <<Digits[(h % 10) + 1]>>)

(***************************************************************************)
(* num2words(n, lang='de') is an external library: modelled as an          *)
(* injective rendering of the integer, "nr" followed by its digits.        *)
(***************************************************************************)
Num2Words(n) == <<"n", "r">> \o IntStr(n)

EuroText == <<" ", "E", "u", "r", "o">>

UndText == <<" ", "u", "n", "d", " ">>

PerCentText == <<"/", "1", "0", "0">>

Raised == [ok |-> FALSE, text |-> <<>>]

Returned(t) == [ok |-> TRUE, text |-> t]

\* amount_to_words(amount): ok = FALSE when it raises ValueError (the tuple
\* unpacking of a split into other than two parts, or int(euro))
amount_to_words(amount) ==
    LET s     == Replace(Strip(amount), <<".">>, <<",">>)
        parts == Split(s, ",")
        comma == Contains(s, ",")
        euro  == IF comma THEN parts[1] ELSE s
        cent  == IF comma THEN SubSeq(parts[2] \o <<"0", "0">>, 1, 2) ELSE <<"0", "0">>
        words == Capitalize(Num2Words(ParseInt(euro).v))
    IN  IF comma /\ Len(parts) # 2 THEN Raised
        ELSE IF ~ParseInt(euro).ok THEN Raised
        ELSE IF cent # <<>> /\ cent # <<"0", "0">>
             THEN Returned(words \o EuroText \o UndText \o cent \o PerCentText)
             ELSE Returned(words \o EuroText)

\* amount_decimal_to_words(dec): ok = FALSE when it raises (int() of NaN)
amount_decimal_to_words(dec) ==
    LET total_cents == Hundredths(dec)
        sign  == IF dec.neg THEN -1 ELSE 1
        euro  == sign * (total_cents \div 100)
        cent  == sign * (total_cents % 100)
        words == Capitalize(Num2Words(euro))
    IN  IF dec.k = "nan" THEN Raised
        ELSE IF cent # 0
             THEN Returned(words \o EuroText \o UndText \o Fmt02d(cent) \o PerCentText)
             ELSE Returned(words \o EuroText)

RECURSIVE SafeChars(_)
SafeChars(s) ==
    IF s = <<>> THEN <<>>
    ELSE <<IF IsAlnum(Head(s)) \/ Head(s) \in {"_", "-"} THEN Head(s) ELSE "_">>
           \o SafeChars(Tail(s))

\* safe(s)
safe(s) == StripChar(SafeChars(s), "_")

(***************************************************************************)
(* datetime.strptime for the three formats of parse_date.  A datetime is   *)
(* <<year, month, day>> (the formats carry no time of day); None is <<>>.  *)
(***************************************************************************)
None == <<>>

\* datetime.min
DatetimeMin == <<1, 1, 1>>

IsLeap(y) == (y % 4 = 0 /\ y % 100 # 0) \/ y % 400 = 0

DaysInMonth(y, m) ==
    IF m = 2 THEN (IF IsLeap(y) THEN 29 ELSE 28)
    ELSE IF m \in {4, 6, 9, 11} THEN 30 ELSE 31

\* the directive %d matches 1..31 in one or two digits, or a space and a digit
MatchesDay(p) ==
    \/ Len(p) \in {1, 2} /\ AllDigits(p) /\ DigitsValue(p) \in 1..31
    \/ Len(p) = 2 /\ p[1] = " " /\ IsDigit(p[2]) /\ p[2] # "0"

DayValue(p) == IF p[1] = " " THEN DigitVal(p[2]) ELSE DigitsValue(p)

\* the directive %m matches 1..12 in one or two digits
MatchesMonth(p) == Len(p) \in {1, 2} /\ AllDigits(p) /\ DigitsValue(p) \in 1..12

\* datetime(y, m, d) raises ValueError outside the calendar (MINYEAR is 1)
ValidDate(y, m, d) == y >= 1 /\ d <= DaysInMonth(y, m)

\* strptime(s, fmt) with the fields' texts dp, mp, yp; yearDigits is 4 for %Y and
\* 2 for %y, whose value 0..68 is 2000.. and 69..99 is 1969..
FromFields(dp, mp, yp, yearDigits) ==
    IF MatchesDay(dp) /\ MatchesMonth(mp) /\ Len(yp) = yearDigits /\ AllDigits(yp)
    THEN LET v == DigitsValue(yp)
             y == IF yearDigits = 4 THEN v
                  ELSE IF v <= 68 THEN 2000 + v ELSE 1900 + v
             m == DigitsValue(mp)
             d == DayValue(dp)
         IN  IF ValidDate(y, m, d) THEN <<y, m, d>> ELSE None
    ELSE None

\* strptime(s, "%d.%m.%Y"), None when it raises ValueError
StrptimeDmY(s) ==
    LET p == Split(s, ".")
    IN  IF Len(p) = 3 THEN FromFields(p[1], p[2], p[3], 4) ELSE None

\* strptime(s, "%d.%m.%y")
StrptimeDmy2(s) ==
    LET p == Split(s, ".")
    IN  IF Len(p) = 3 THEN FromFields(p[1], p[2], p[3], 2) ELSE None

\* strptime(s, "%Y-%m-%d")
StrptimeIso(s) ==
    LET p == Split(s, "-")
    IN  IF Len(p) = 3 THEN FromFields(p[3], p[2], p[1], 4) ELSE None

\* parse_date(s): the first format that matches wins
parse_date(s) ==
    LET t == Strip(s)
    IN  IF StrptimeDmY(t) # None THEN StrptimeDmY(t)
        ELSE IF StrptimeDmy2(t) # None THEN StrptimeDmy2(t)
        ELSE StrptimeIso(t)

\* a < b for datetimes
DtLess(a, b) ==
    \/ a[1] < b[1]
    \/ a[1] = b[1] /\ a[2] < b[2]
    \/ a[1] = b[1] /\ a[2] = b[2] /\ a[3] < b[3]

\* dt.strftime("%d.%m.%Y")
StrftimeDmY(dt) ==
    Fmt02d(dt[3]) \o <<".">> \o Fmt02d(dt[2]) \o <<".">> \o NatStr(dt[1])

(***************************************************************************)
(* The template tokens (the keys of ctx), spelled out.                     *)
(***************************************************************************)
SPENDERNACHNAME == <<"S", "P", "E", "N", "D", "E", "R", "N", "A", "C", "H", "N", "A", "M", "E">>

SPENDERVORNAME == <<"S", "P", "E", "N", "D", "E", "R", "V", "O", "R", "N", "A", "M", "E">>

SPENDERNAME == <<"S", "P", "E", "N", "D", "E", "R", "N", "A", "M", "E">>

SPENDERSTRASSE == <<"S", "P", "E", "N", "D", "E", "R", "S", "T", "R", "A", "S", "S", "E">>

SPENDERZUSATZ == <<"S", "P", "E", "N", "D", "E", "R", "Z", "U", "S", "A", "T", "Z">>

SPENDERORT == <<"S", "P", "E", "N", "D", "E", "R", "O", "R", "T">>

BETRAGZIFFERN == <<"B", "E", "T", "R", "A", "G", "Z", "I", "F", "F", "E", "R", "N">>

BETRAGBUCHSTABEN == <<"B", "E", "T", "R", "A", "G", "B", "U", "C", "H", "S", "T", "A", "B", "E", "N">>

SPENDENDATUM == <<"S", "P", "E", "N", "D", "E", "N", "D", "A", "T", "U", "M">>

AUSSTELLUNGSDATUM == <<"A", "U", "S", "S", "T", "E", "L", "L", "U", "N", "G", "S", "D", "A", "T", "U", "M">>

DONATION_ROWS == <<"D", "O", "N", "A", "T", "I", "O", "N", "_", "R", "O", "W", "S">>

GESAMTBETRAGSWORTE == <<"G", "E", "S", "A", "M", "T", "B", "E", "T", "R", "A", "G", "S", "W", "O", "R", "T", "E">>

SPENDENJAHR == <<"S", "P", "E", "N", "D", "E", "N", "J", "A", "H", "R">>

(***************************************************************************)
(* The input.  A ledger line is the list of fields csv.reader yields for   *)
(* it.  The lines of a run are drawn from Ledger; a run reads at most      *)
(* MaxRows of them.                                                        *)
(***************************************************************************)
MaxRows == 3

Ott == <<"O", "t", "t">>

Jo == <<"J", "o">>

Weg == <<"W", "e", "g", " ", "1">>

Ulm == <<"U", "l", "m">>

Line(nachname, vorname, strasse, betrag, spendendatum) ==
    <<nachname, vorname, strasse, <<>>, Ulm, betrag, spendendatum>>

Ledger ==
    { Line(Ott, Jo, Weg, <<"1", "0", ",", "0", "0">>, <<"0", "1", ".", "0", "3", ".", "2", "0", "2", "4">>),
      Line(Lower(Ott), <<"j", "O">>, Weg, <<"2", "0", ",", "5", "0">>, <<"1", "5", ".", "0", "6", ".", "2", "0", "2", "4">>),
      Line(Ott, Jo \o <<".">>, SPENDERORT, <<"1", "0", ",", "0", "0">>, <<"0", "1", ".", "0", "3", ".", "2", "0", "2", "4">>),
      Line(Ott, Jo \o <<" ">>, Weg, <<"0", ",", "0", "0">>, <<"0", "1", ".", "0", "3", ".", "2", "4">>),
      Line(Ott, Jo \o <<".">>, Weg, <<"x">>, <<"2", "0", "2", "4", "-", "0", "3", "-", "0", "1">>),
      Line(Ott, Jo, Weg, <<"N", "a", "N">>, <<"f", "o", "o">>),
      Line(Ott, Jo, Weg, <<"1", "0", ",", "0", "0">>, <<"0", "1", ".", "0", "1", ".", "0", "0", "0", "1">>),
      <<<<"#", " ", "K", "o", "m", "m", "e", "n", "t", "a", "r">>>>,
      <<Ott, Jo>> }

\* the two template files' texts
TemplateSingle ==
    SPENDERNAME \o <<" ">> \o SPENDERSTRASSE \o <<" ">> \o SPENDERORT \o <<" ">>
      \o BETRAGZIFFERN \o <<" ">> \o BETRAGBUCHSTABEN \o <<" ">> \o SPENDENDATUM
      \o <<" ">> \o AUSSTELLUNGSDATUM

TemplateCollective ==
    SPENDERNAME \o <<" ">> \o SPENDERSTRASSE \o <<" ">> \o SPENDERORT \o <<"\n">>
      \o DONATION_ROWS \o <<"\n">> \o BETRAGZIFFERN \o <<" ">> \o GESAMTBETRAGSWORTE
      \o <<" ">> \o SPENDENJAHR \o <<" ">> \o AUSSTELLUNGSDATUM

\* the values of --ausstellungsdatum: not given, one that parses, one that does not
IssueDates == { None, <<"2", "0", "2", "5", "-", "1", "2", "-", "0", "5">>, <<"5", ".", "1", "2">> }

\* datetime.now() of the run
Now == <<2026, 11, 3>>

\* pdflatex's outcomes: it writes the PDF, or it halts on an error
CompileOutcomes == BOOLEAN

(***************************************************************************)
(* Parsing a ledger line into a record, and grouping.                      *)
(***************************************************************************)
RECURSIVE StripAll(_)
StripAll(r) == IF r = <<>> THEN <<>> ELSE <<Strip(Head(r))>> \o StripAll(Tail(r))

\* (r + [""]*7)[:7]
Pad7(r) == SubSeq(r \o <<<<>>, <<>>, <<>>, <<>>, <<>>, <<>>, <<>>>>, 1, 7)

\* not r or r[0].strip().startswith("#")
Skipped(r) == r = <<>> \/ (Strip(r[1]) # <<>> /\ Head(Strip(r[1])) = "#")

\* the dict appended to rows; line is the number of the ledger line it came from
Record(r, lineno) ==
    LET c == StripAll(Pad7(r))
    IN  [nachname |-> c[1], vorname |-> c[2], strasse |-> c[3], strasse2 |-> c[4],
         ort |-> c[5], betrag |-> c[6], spendendatum |-> c[7],
         dateobj |-> parse_date(c[7]), line |-> lineno]

\* the key without .lower()
GroupKeyCaseSensitive(r) == <<r.nachname, r.vorname>>

\* key = (r["nachname"].lower(), r["vorname"].lower())
GroupKey(r) == <<Lower(r.nachname), Lower(r.vorname)>>

\* groups[key].append(r) on a defaultdict(list), which keeps its keys in the
\* order they were first inserted
AddToGroup(gs, r) ==
    IF \E i \in 1..Len(gs) : gs[i].key = GroupKey(r)
    THEN LET i == CHOOSE k \in 1..Len(gs) : gs[k].key = GroupKey(r)
         IN  [gs EXCEPT ![i].items = Append(@, r)]
    ELSE Append(gs, [key |-> GroupKey(r), items |-> <<r>>])

RECURSIVE GroupAll(_, _)
\* for r in rows: groups[key].append(r)
GroupAll(gs, rs) == IF rs = <<>> THEN gs ELSE GroupAll(AddToGroup(gs, Head(rs)), Tail(rs))

(***************************************************************************)
(* Building one document.                                                  *)
(***************************************************************************)
\* the sort key: x["dateobj"] if x["dateobj"] else datetime.min
SortKey(x) == IF x.dateobj # None THEN x.dateobj ELSE DatetimeMin

RECURSIVE InsertSortedBeforeTies(_, _)
\* an unstable insertion: x goes in front of the elements whose key is equal
InsertSortedBeforeTies(s, x) ==
    IF s = <<>> THEN <<x>>
    ELSE IF ~DtLess(SortKey(Head(s)), SortKey(x)) THEN <<x>> \o s
    ELSE <<Head(s)>> \o InsertSortedBeforeTies(Tail(s), x)

RECURSIVE InsertSorted(_, _)
\* x goes behind every element whose key is not greater: the sort is stable
InsertSorted(s, x) ==
    IF s = <<>> THEN <<x>>
    ELSE IF DtLess(SortKey(x), SortKey(Head(s))) THEN <<x>> \o s
    ELSE <<Head(s)>> \o InsertSorted(Tail(s), x)

RECURSIVE SortedByDate(_)
\* sorted(items, key=...)
SortedByDate(items) ==
    IF items = <<>> THEN <<>>
    ELSE InsertSorted(SortedByDate(SubSeq(items, 1, Len(items) - 1)), items[Len(items)])

\* norm of one record, then Decimal(norm), zero when the constructor raises
AmountOf(it) ==
    LET norm == Replace(Replace(Strip(it.betrag), <<".">>, <<>>), <<",">>, <<".">>)
        dec  == Decimal(norm)
    IN  IF dec.k = "invalid" THEN DecFin(FALSE, 0, 2) ELSE dec

RECURSIVE SumAmounts(_, _)
\* total += dec over the sorted items
SumAmounts(total, its) ==
    IF its = <<>> THEN total
    ELSE SumAmounts(DecAdd(total, AmountOf(Head(its))), Tail(its))

RowPrefix == <<" ", "&", " ", "S", "p", "e", "n", "d", "e", " ", "&", " ", "N", "e",
               "i", "n", " ", "&", " ", "-", "-">>

RowSuffix == <<" ", "E", "u", "r", "o", " ", "-", "-", " ", "\\", "\\", " ", "\\",
               "h", "l", "i", "n", "e">>

\* one entry of rows_tex
RowTex(it) ==
    it.spendendatum \o RowPrefix
      \o Replace(FormatF2(AmountOf(it)), <<".">>, <<",">>) \o RowSuffix

RECURSIVE RowsTex(_)
RowsTex(its) == IF its = <<>> THEN <<>> ELSE <<RowTex(Head(its))>> \o RowsTex(Tail(its))

\* f"{vorname} {nachname}".strip()
DisplayName(nachname, vorname) == Strip(vorname \o <<" ">> \o nachname)

RECURSIVE Substitute(_, _)
\* for k,v in ctx.items(): tex = tex.replace(k, v), ctx a list of <<key, value>>
Substitute(tex, ctx) ==
    IF ctx = <<>> THEN tex
    ELSE Substitute(Replace(tex, Head(ctx)[1], Head(ctx)[2]), Tail(ctx))

\* the words field of a single receipt: amount_to_words, the amount itself when it raises
BetragW(it) ==
    IF amount_to_words(it.betrag).ok THEN amount_to_words(it.betrag).text ELSE it.betrag

\* ctx of the single receipt, in the order the dict literal gives
CtxSingle(it, nachname, vorname, datum) ==
    << <<SPENDERNACHNAME, nachname>>,
       <<SPENDERVORNAME, vorname>>,
       <<SPENDERNAME, DisplayName(nachname, vorname)>>,
       <<SPENDERSTRASSE, it.strasse>>,
       <<SPENDERZUSATZ, it.strasse2>>,
       <<SPENDERORT, it.ort>>,
       <<BETRAGZIFFERN, Replace(it.betrag, <<".">>, <<",">>)>>,
       <<BETRAGBUCHSTABEN, BetragW(it)>>,
       <<SPENDENDATUM, it.spendendatum>>,
       <<AUSSTELLUNGSDATUM, datum>> >>

\* the words field of a consolidated receipt: empty when amount_decimal_to_words raises
TotalWords(total) ==
    IF amount_decimal_to_words(total).ok THEN amount_decimal_to_words(total).text ELSE <<>>

\* year = datetime.strptime(it['spendendatum'], "%d.%m.%Y"), it the last sorted item
YearOf(items_sorted) == StrptimeDmY(items_sorted[Len(items_sorted)].spendendatum)

\* ctx of the consolidated receipt, in the order the dict literal gives
CtxCollective(items_sorted, nachname, vorname, datum) ==
    LET total == SumAmounts(DecFin(FALSE, 0, 2), items_sorted)
    IN  << <<SPENDERNACHNAME, nachname>>,
           <<SPENDERVORNAME, vorname>>,
           <<BETRAGZIFFERN, Replace(FormatF2(total), <<".">>, <<",">>)>>,
           <<SPENDERNAME, DisplayName(nachname, vorname)>>,
           <<SPENDERSTRASSE, items_sorted[1].strasse>>,
           <<SPENDERZUSATZ, items_sorted[1].strasse2>>,
           <<SPENDERORT, items_sorted[1].ort>>,
           <<DONATION_ROWS, Join(RowsTex(items_sorted), <<"\n">>)>>,
           <<GESAMTBETRAGSWORTE, TotalWords(total)>>,
           <<AUSSTELLUNGSDATUM, datum>>,
           <<SPENDENJAHR, NatStr(YearOf(items_sorted)[1])>> >>

\* the file name without ".tex"
StemSingle(it, nachname, vorname) ==
    safe(nachname) \o <<"_">> \o safe(vorname) \o <<"_">>
      \o Replace(it.spendendatum, <<".">>, <<"-">>)

StemCollective(nachname, vorname) ==
    safe(nachname) \o <<"_">> \o safe(vorname) \o <<"_", "s", "a", "m", "m", "e", "l">>

(***************************************************************************)
(* The output directory: a set of files, each a name <<stem, extension>>   *)
(* and a content.                                                          *)
(***************************************************************************)
File(stem, ext, content) == [name |-> <<stem, ext>>, content |-> content]

\* writing replaces the file of that name
WriteFile(fs, stem, ext, content) ==
    {f \in fs : f.name # <<stem, ext>>} \cup {File(stem, ext, content)}

\* compile_latex(texpath): pdflatex writes the log and, unless it halts on an
\* error, the auxiliary file and the PDF of the source; its status is not read
Compiled(fs, stem, tex, ok) ==
    LET withLog == WriteFile(fs, stem, "log", <<>>)
    IN  IF ok
        THEN WriteFile(WriteFile(withLog, stem, "aux", <<>>), stem, "pdf", tex)
        ELSE withLog

\* for ext in (".tex",".aux",".log"): if p.exists(): p.unlink()
Cleaned(fs, stem) == {f \in fs : ~(f.name[1] = stem /\ f.name[2] \in {"tex", "aux", "log"})}

\* texpath.write_text(tex); compile_latex(texpath); the cleanup unless --keep-tex
Emit(fs, stem, tex, ok, keep) ==
    LET compiled == Compiled(WriteFile(fs, stem, "tex", tex), stem, tex, ok)
    IN  IF keep THEN compiled ELSE Cleaned(compiled, stem)

Event(op, stem, key, kind) == [op |-> op, stem |-> stem, key |-> key, kind |-> kind]

\* the write of a document, with the context, the items and the text it was built from
WriteEvent(stem, key, kind, ctx, items, tex) ==
    [op |-> "write", stem |-> stem, key |-> key, kind |-> kind,
     ctx |-> ctx, items |-> items, tex |-> tex]

\* what Emit does, in order, for the log
EmitEvents(stem, keep, key, kind, ctx, items, tex) ==
    << WriteEvent(stem, key, kind, ctx, items, tex), Event("compile", stem, key, kind) >>
      \o (IF keep THEN <<>> ELSE << Event("cleanup", stem, key, kind) >>)

(***************************************************************************)
(* main(): the state after argument parsing, and its steps.                *)
(***************************************************************************)
Init ==
    /\ pc = "start"
    /\ args \in [csvfile : BOOLEAN, template : BOOLEAN, collective_template : BOOLEAN,
                 keep_tex : BOOLEAN, ausstellungsdatum : IssueDates]
    /\ nread = 0
    /\ rows = <<>>
    /\ groups = <<>>
    /\ ausstellungsdatum = None
    /\ gi = 1
    /\ files = {}
    /\ log = <<>>
    /\ stdout = <<>>
    /\ status = "running"
    /\ probe = <<>>

\* print(msg); return: main returns and the interpreter exits with status 0
Return(msg) ==
    /\ pc' = "exit"
    /\ stdout' = Append(stdout, msg)
    /\ status' = 0

\* the three existence checks, then OUTDIR.mkdir and the opening of the ledger
Preflight ==
    /\ pc = "start"
    /\ IF ~args.csvfile THEN Return("CSV nicht gefunden")
       ELSE IF ~args.template THEN Return("Einzel-Template nicht gefunden")
       ELSE IF ~args.collective_template THEN Return("Sammel-Template nicht gefunden")
       ELSE pc' = "read" /\ UNCHANGED <<stdout, status>>
    /\ UNCHANGED <<args, nread, rows, groups, ausstellungsdatum, gi, files, log, probe>>

\* one iteration of "for r in reader"
ReadRow ==
    /\ pc = "read"
    /\ nread < MaxRows
    /\ \E r \in Ledger :
          rows' = IF Skipped(r) THEN rows ELSE Append(rows, Record(r, nread + 1))
    /\ nread' = nread + 1
    /\ UNCHANGED <<pc, args, groups, ausstellungsdatum, gi, files, log, stdout, status, probe>>

\* the end of the ledger, then the grouping loop
GroupRows ==
    /\ pc = "read"
    /\ groups' = GroupAll(<<>>, rows)
    /\ pc' = "issue"
    /\ UNCHANGED <<args, nread, rows, ausstellungsdatum, gi, files, log, stdout, status, probe>>

\* the issue date of the run, then the reading of the two templates
IssueDate ==
    /\ pc = "issue"
    /\ IF args.ausstellungsdatum # <<>>
       THEN IF parse_date(args.ausstellungsdatum) = None
            THEN /\ Return("Ungueltiges Ausstellungsdatum")
                 /\ UNCHANGED ausstellungsdatum
            ELSE /\ ausstellungsdatum' = StrftimeDmY(parse_date(args.ausstellungsdatum))
                 /\ pc' = "loop"
                 /\ UNCHANGED <<stdout, status>>
       ELSE /\ ausstellungsdatum' = StrftimeDmY(Now)
            /\ pc' = "loop"
            /\ UNCHANGED <<stdout, status>>
    /\ UNCHANGED <<args, nread, rows, groups, gi, files, log, probe>>

\* one iteration of "for key, items in groups.items()" with len(items) == 1
Einzel ==
    /\ pc = "loop"
    /\ gi <= Len(groups)
    /\ Len(groups[gi].items) = 1
    /\ LET it       == groups[gi].items[1]
           nachname == it.nachname
           vorname  == it.vorname
           ctx      == CtxSingle(it, nachname, vorname, ausstellungsdatum)
           tex      == Substitute(TemplateSingle, ctx)
           stem     == StemSingle(it, nachname, vorname)
       IN  /\ \E ok \in CompileOutcomes :
                 files' = Emit(files, stem, tex, ok, args.keep_tex)
           /\ log' = log \o EmitEvents(stem, args.keep_tex, groups[gi].key, "einzel",
                                       ctx, groups[gi].items, tex)
    /\ stdout' = Append(stdout, "Einzel")
    /\ gi' = gi + 1
    /\ UNCHANGED <<pc, args, nread, rows, groups, ausstellungsdatum, status, probe>>

\* one iteration with len(items) >= 2 in which strptime of the last sorted
\* item's date succeeds
Sammel ==
    /\ pc = "loop"
    /\ gi <= Len(groups)
    /\ Len(groups[gi].items) # 1
    /\ YearOf(SortedByDate(groups[gi].items)) # None
    /\ LET items        == groups[gi].items
           nachname     == items[1].nachname
           vorname      == items[1].vorname
           items_sorted == SortedByDate(items)
           ctx          == CtxCollective(items_sorted, nachname, vorname, ausstellungsdatum)
           tex          == Substitute(TemplateCollective, ctx)
           stem         == StemCollective(nachname, vorname)
       IN  /\ \E ok \in CompileOutcomes :
                 files' = Emit(files, stem, tex, ok, args.keep_tex)
           /\ log' = log \o EmitEvents(stem, args.keep_tex, groups[gi].key, "sammel",
                                       ctx, items_sorted, tex)
    /\ stdout' = Append(stdout, "Sammel")
    /\ gi' = gi + 1
    /\ UNCHANGED <<pc, args, nread, rows, groups, ausstellungsdatum, status, probe>>

\* one iteration with len(items) >= 2 in which that strptime raises ValueError:
\* nothing catches it, the interpreter prints the traceback and exits with 1
SammelRaises ==
    /\ pc = "loop"
    /\ gi <= Len(groups)
    /\ Len(groups[gi].items) # 1
    /\ YearOf(SortedByDate(groups[gi].items)) = None
    /\ pc' = "crashed"
    /\ stdout' = Append(stdout, "Traceback")
    /\ status' = 1
    /\ UNCHANGED <<args, nread, rows, groups, ausstellungsdatum, gi, files, log, probe>>

\* the loop is exhausted: main returns
Finish ==
    /\ pc = "loop"
    /\ gi > Len(groups)
    /\ pc' = "done"
    /\ status' = 0
    /\ UNCHANGED <<args, nread, rows, groups, ausstellungsdatum, gi, files, log, stdout, probe>>

Next ==
    \/ Preflight
    \/ ReadRow
    \/ GroupRows
    \/ IssueDate
    \/ Einzel
    \/ Sammel
    \/ SammelRaises
    \/ Finish

Spec == Init /\ [][Next]_vars

(***************************************************************************)
(* The two words conversions tried alone on one amount string: the single  *)
(* receipt's amount_to_words on the string, and the consolidated receipt's *)
(* amount_decimal_to_words on the Decimal the summation loop makes of it.  *)
(***************************************************************************)
MaxAmountLen == 5

AmountChars == {"0", "1", "5", ",", "."}

AmountStrings == UNION { [1..n -> AmountChars] : n \in 0..MaxAmountLen }

InitWords ==
    /\ pc = "words"
    /\ probe \in { [amount |-> s, done |-> FALSE, single |-> Raised, decimal |-> Raised] :
                   s \in AmountStrings }
    /\ args = [csvfile |-> TRUE, template |-> TRUE, collective_template |-> TRUE,
               keep_tex |-> FALSE, ausstellungsdatum |-> None]
    /\ nread = 0
    /\ rows = <<>>
    /\ groups = <<>>
    /\ ausstellungsdatum = None
    /\ gi = 1
    /\ files = {}
    /\ log = <<>>
    /\ stdout = <<>>
    /\ status = "running"

ApplyWords ==
    /\ pc = "words"
    /\ ~probe.done
    /\ probe' = [amount  |-> probe.amount,
                 done    |-> TRUE,
                 single  |-> amount_to_words(probe.amount),
                 decimal |-> amount_decimal_to_words(AmountOf([betrag |-> probe.amount]))]
    /\ UNCHANGED <<pc, args, nread, rows, groups, ausstellungsdatum, gi, files, log,
                   stdout, status>>

NextWords == ApplyWords

SpecWords == InitWords /\ [][NextWords]_vars

(***************************************************************************)
(* Properties.                                                             *)
(***************************************************************************)
\* the positions of the log at which a document was written
WriteEvents == {i \in 1..Len(log) : log[i].op = "write"}

\* ctx[key]
Value(ctx, key) == ctx[CHOOSE j \in 1..Len(ctx) : ctx[j][1] = key][2]

Range(s) == {s[i] : i \in 1..Len(s)}

\* C1: once the pre-flight checks have passed, no donor group's processing raises
\* an error that aborts the batch, whatever the amounts and donation dates are:
\* the run does not crash, and when it ends every donor group has its document.
C1_NoGroupAbortsTheBatch ==
    /\ pc # "crashed"
    /\ pc = "done" =>
          \A g \in 1..Len(groups) : \E i \in WriteEvents : log[i].key = groups[g].key

\* C2: a run that ends early (missing ledger, missing template, unparseable issue
\* date) has printed a diagnostic, exits with a non-zero status, and has written
\* and compiled nothing.
C2_EarlyExitIsNonZero ==
    pc = "exit" => stdout # <<>> /\ status # 0 /\ files = {} /\ log = <<>>

\* The part of C2 the program keeps: the early exit prints its diagnostic and
\* writes and compiles nothing, and a run gets past the checks only with the
\* ledger and both templates present and the issue date absent or parseable.
EarlyExitWritesNothing ==
    /\ pc = "exit" => Len(stdout) = 1 /\ files = {} /\ log = <<>>
    /\ pc \in {"loop", "done", "crashed"} =>
          /\ args.csvfile /\ args.template /\ args.collective_template
          /\ args.ausstellungsdatum = None \/ parse_date(args.ausstellungsdatum) # None

\* the amount of a ledger field in cents as the ledger's convention reads it: dots
\* separate thousands, a comma the at most two decimals; not a number counts as 0
LedgerCents(s) ==
    LET t      == Replace(Strip(s), <<".">>, <<>>)
        signed == t # <<>> /\ Head(t) \in {"-", "+"}
        body   == IF signed THEN Tail(t) ELSE t
        parts  == Split(body, ",")
        frac   == IF Len(parts) = 2 THEN parts[2] ELSE <<>>
    IN  IF /\ Len(parts) <= 2
           /\ AllDigits(parts[1]) /\ AllDigits(frac) /\ Len(frac) <= 2
           /\ parts[1] \o frac # <<>>
        THEN (IF signed /\ Head(t) = "-" THEN -1 ELSE 1)
               * (100 * DigitsValue(parts[1]) + DigitsValue(SubSeq(frac \o <<"0", "0">>, 1, 2)))
        ELSE 0

RECURSIVE SumCents(_)
SumCents(its) == IF its = <<>> THEN 0 ELSE LedgerCents(Head(its).betrag) + SumCents(Tail(its))

\* cents shown with exactly two fractional digits and a comma
CentsText(n) ==
    LET a == IF n < 0 THEN -n ELSE n
    IN  (IF n < 0 THEN <<"-">> ELSE <<>>) \o NatStr(a \div 100) \o <<",">>
          \o <<Digits[((a % 100) \div 10) + 1], Digits[(a % 10) + 1]>>

\* C3: the total a consolidated document displays is the exact sum of its records'
\* amounts, each not-a-number amount counting as zero, shown with two fractional
\* digits and a comma.
C3_TotalIsExactSum ==
    \A i \in WriteEvents :
        log[i].kind = "sammel" =>
            Value(log[i].ctx, BETRAGZIFFERN) = CentsText(SumCents(log[i].items))

\* The part of C3 the program keeps: the total is that sum whenever none of the
\* group's amounts is the text NaN, which Decimal() accepts.
TotalIsExactSumWithoutNaN ==
    \A i \in WriteEvents :
        (log[i].kind = "sammel"
           /\ \A r \in Range(log[i].items) : AmountOf(r).k # "nan") =>
            Value(log[i].ctx, BETRAGZIFFERN) = CentsText(SumCents(log[i].items))

\* an amount as the ledger writes it: digits, possibly in groups of three separated
\* by dots, and at most two decimals behind a comma
IsLedgerAmount(s) ==
    LET parts == Split(s, ",")
        grp   == Split(parts[1], ".")
    IN  /\ Len(parts) <= 2
        /\ Len(parts) = 2 => AllDigits(parts[2]) /\ Len(parts[2]) \in {1, 2}
        /\ \A k \in 1..Len(grp) : AllDigits(grp[k]) /\ grp[k] # <<>>
        /\ Len(grp) > 1 =>
              /\ Len(grp[1]) <= 3 /\ Head(grp[1]) # "0"
              /\ \A k \in 2..Len(grp) : Len(grp[k]) = 3

\* C4: for every amount the two words conversions give the same text.
C4_WordsPathsAgree ==
    (pc = "words" /\ probe.done /\ IsLedgerAmount(probe.amount)) =>
        probe.single = probe.decimal

\* The part of C4 the program keeps: the two conversions agree on every amount
\* written without thousands separators.
WordsPathsAgreeWithoutSeparators ==
    (pc = "words" /\ probe.done /\ IsLedgerAmount(probe.amount)
       /\ ~Contains(probe.amount, ".")) =>
        probe.single.ok /\ probe.single = probe.decimal

RECURSIVE SubstituteAtOnce(_, _)
\* every occurrence of a key in tex replaced by the key's value, in one pass: what
\* is put in is not read again
SubstituteAtOnce(tex, ctx) ==
    LET hits == {h \in (1..Len(tex)) \X (1..Len(ctx)) :
                    /\ h[1] + Len(ctx[h[2]][1]) - 1 <= Len(tex)
                    /\ OccursAt(tex, ctx[h[2]][1], h[1])}
    IN  IF hits = {} THEN tex
        ELSE LET h == CHOOSE x \in hits :
                          \A y \in hits : x[1] < y[1] \/ (x[1] = y[1] /\ x[2] <= y[2])
             IN  SubSeq(tex, 1, h[1] - 1) \o ctx[h[2]][2]
                   \o SubstituteAtOnce(SubSeq(tex, h[1] + Len(ctx[h[2]][1]), Len(tex)), ctx)

RECURSIVE Reverse(_)
Reverse(s) == IF s = <<>> THEN <<>> ELSE Reverse(Tail(s)) \o <<Head(s)>>

TemplateOf(kind) == IF kind = "einzel" THEN TemplateSingle ELSE TemplateCollective

\* C5: the text of a document is its template with each occurrence of a context
\* key replaced by the key's value (a value is not itself substituted), and it is
\* the same when the keys are applied in the opposite order.
C5_SubstitutionIsOrderIndependent ==
    \A i \in WriteEvents :
        /\ log[i].tex = SubstituteAtOnce(TemplateOf(log[i].kind), log[i].ctx)
        /\ log[i].tex = Substitute(TemplateOf(log[i].kind), Reverse(log[i].ctx))

\* some key of ctx occurs in s
HoldsKey(s, ctx) ==
    \E j \in 1..Len(ctx), k \in 1..Len(s) :
        k + Len(ctx[j][1]) - 1 <= Len(s) /\ OccursAt(s, ctx[j][1], k)

\* The part of C5 the program keeps: both hold of every document none of whose
\* context values holds a key.
SubstitutionWhenNoValueHoldsAKey ==
    \A i \in WriteEvents :
        (\A j \in 1..Len(log[i].ctx) : ~HoldsKey(log[i].ctx[j][2], log[i].ctx)) =>
            /\ log[i].tex = SubstituteAtOnce(TemplateOf(log[i].kind), log[i].ctx)
            /\ log[i].tex = Substitute(TemplateOf(log[i].kind), Reverse(log[i].ctx))

\* C6: two different donor groups of one run never get the same output file name.
C6_DistinctFileNames ==
    \A i, j \in WriteEvents : log[i].key # log[j].key => log[i].stem # log[j].stem

\* rendering the words form of the document's amount raised
WordsFailed(e) ==
    IF e.kind = "einzel"
    THEN ~amount_to_words(e.items[1].betrag).ok
    ELSE ~amount_decimal_to_words(SumAmounts(DecFin(FALSE, 0, 2), e.items)).ok

\* every group the loop has passed has its document
ProcessedGroupsHaveDocuments ==
    \A g \in 1..Len(groups) :
        g < gi => \E i \in WriteEvents : log[i].key = groups[g].key

\* C7: when rendering the words form fails the document is still produced, and
\* on both paths its words field is the raw numeric amount string (of a
\* consolidated receipt: the displayed total).
C7_WordsFallbackIsRawAmount ==
    /\ ProcessedGroupsHaveDocuments
    /\ \A i \in WriteEvents :
          WordsFailed(log[i]) =>
              IF log[i].kind = "einzel"
              THEN Value(log[i].ctx, BETRAGBUCHSTABEN) = log[i].items[1].betrag
              ELSE Value(log[i].ctx, GESAMTBETRAGSWORTE) = Value(log[i].ctx, BETRAGZIFFERN)

\* The part of C7 the program keeps: the document is still produced, the words
\* field of a single receipt is then the raw amount string; that of a consolidated
\* receipt is then empty.
WordsFallbackAsWritten ==
    /\ ProcessedGroupsHaveDocuments
    /\ \A i \in WriteEvents :
          WordsFailed(log[i]) =>
              IF log[i].kind = "einzel"
              THEN Value(log[i].ctx, BETRAGBUCHSTABEN) = log[i].items[1].betrag
              ELSE Value(log[i].ctx, GESAMTBETRAGSWORTE) = <<>>

\* both fallbacks are taken in one run
BothFallbacksTaken ==
    \E i, j \in WriteEvents :
        /\ log[i].kind = "einzel" /\ WordsFailed(log[i])
        /\ log[j].kind = "sammel" /\ WordsFailed(log[j])

\* the records of the group a document was written for, in input order
ItemsOfGroup(key) == groups[CHOOSE g \in 1..Len(groups) : groups[g].key = key].items

\* C8 (as amended): the rows of a consolidated document are the group's records in
\* ascending order of parsed date; a record with an unparseable date comes before
\* every record with a valid date other than the minimum date 01.01.0001, with
\* which it ties; records that tie (equal dates, unparseable dates, the minimum
\* date) keep their input order.
C8_RowsSortedByDate ==
    \A i \in WriteEvents :
        log[i].kind = "sammel" =>
            LET its == log[i].items
            IN  /\ Len(its) = Len(ItemsOfGroup(log[i].key))
                /\ Range(its) = Range(ItemsOfGroup(log[i].key))
                /\ \A a, b \in 1..Len(its) :
                      a < b =>
                        LET x == its[a].dateobj
                            y == its[b].dateobj
                        IN  /\ (x # None /\ y # None) => ~DtLess(y, x)
                            /\ (x # None /\ y = None) => x = DatetimeMin
                            /\ (x = y \/ {x, y} = {None, DatetimeMin}) =>
                                  its[a].line < its[b].line

\* C8 as stated: every record with an unparseable date comes before every record
\* with a valid date.
C8_UnparseableBeforeEveryValid ==
    \A i \in WriteEvents :
        log[i].kind = "sammel" =>
            \A a, b \in 1..Len(log[i].items) :
                (log[i].items[a].dateobj # None /\ log[i].items[b].dateobj = None) => b < a

\* a consolidated document whose rows the sort has reordered, with an unparseable
\* date in front
C8_SortedWithUnparseable ==
    \E i \in WriteEvents :
        /\ log[i].kind = "sammel"
        /\ log[i].items[1].dateobj = None
        /\ \E a, b \in 1..Len(log[i].items) :
              a < b /\ log[i].items[a].line > log[i].items[b].line

\* the same letter, in either case
SameLetter(c, d) ==
    c = d \/ \E k \in DOMAIN UpperLetters : {c, d} = {UpperLetters[k], LowerLetters[k]}

\* equal ignoring letter case
EqualIgnoringCase(s, u) ==
    Len(s) = Len(u) /\ \A k \in 1..Len(s) : SameLetter(s[k], u[k])

SameDonor(r, q) ==
    EqualIgnoringCase(r.nachname, q.nachname) /\ EqualIgnoringCase(r.vorname, q.vorname)

\* C9: after grouping, two records are in the same group exactly when their last
\* names and their first names are equal ignoring letter case; every record is in
\* exactly one group, no group is empty, and the records of a group share the
\* group's key.
C9_GroupsPartitionByName ==
    pc \in {"issue", "loop", "done", "crashed"} =>
        /\ \A r \in Range(rows) :
              Cardinality({<<g, k>> \in (1..Len(groups)) \X (1..Len(rows)) :
                              k <= Len(groups[g].items) /\ groups[g].items[k] = r}) = 1
        /\ \A g \in 1..Len(groups) :
              /\ groups[g].items # <<>>
              /\ \A r \in Range(groups[g].items) :
                    /\ r \in Range(rows)
                    /\ EqualIgnoringCase(groups[g].key[1], r.nachname)
                    /\ EqualIgnoringCase(groups[g].key[2], r.vorname)
        /\ \A g, h \in 1..Len(groups) :
              \A r \in Range(groups[g].items), q \in Range(groups[h].items) :
                  g = h <=> SameDonor(r, q)

\* grouped: two records whose names differ only in case share a group, and there
\* is a second group
C9_CaseVariantsGrouped ==
    /\ pc = "issue"
    /\ Len(groups) = 2
    /\ \E g \in 1..Len(groups) :
          \E r, q \in Range(groups[g].items) : r.vorname # q.vorname

\* the log positions of the events op of a group
EventsOf(op, key) == {i \in 1..Len(log) : log[i].op = op /\ log[i].key = key}

\* group g has exactly one document, from the template its size calls for, compiled
\* once after it was written and before its cleanup
OneDocument(g) ==
    LET key == groups[g].key
    IN  /\ Cardinality(EventsOf("write", key)) = 1
        /\ Cardinality(EventsOf("compile", key)) = 1
        /\ \A w \in EventsOf("write", key) :
              /\ log[w].kind = "einzel" <=> Len(groups[g].items) = 1
              /\ log[w].kind = "sammel" <=> Len(groups[g].items) >= 2
              /\ \A c \in EventsOf("compile", key) : w < c
        /\ \A c \in EventsOf("compile", key), u \in EventsOf("cleanup", key) : c < u

\* C10: when the run has ended past the pre-flight checks, every donor group has
\* exactly one document, built from the single template exactly when the group has
\* one record, and compiled exactly once, after the write and before the cleanup.
C10_OneDocumentPerGroup ==
    pc \in {"done", "crashed"} => \A g \in 1..Len(groups) : OneDocument(g)

\* The part of C10 the program keeps: it holds of every group the loop has passed.
OneDocumentPerProcessedGroup ==
    \A g \in 1..Len(groups) : g < gi => OneDocument(g)

====
